---- MODULE Spec2Model ----
(***************************************************************************)
(* castools: the cas2wav block scanner (cas2wav.c, main), the payload      *)
(* transmitter writeData and the FSK framer writePulse / writeSync /       *)
(* writeByte / writeSilence with the buffered PCM sink (caslib.c).         *)
(*                                                                         *)
(* The specifications share the variables:                                 *)
(*   Spec        one run of cas2wav's main over a tape image;              *)
(*   SpecData    one call of writeData, one fgetc of its loop per step;    *)
(*   SpecFramer  single calls of the framer primitives;                    *)
(*   SpecSink    putByte / flushWriteBuffer with the buffer's contents;    *)
(*   SpecLive    Spec with the fairness of a running program;              *)
(*   SpecDir     one run of casdir's main over a tape image (casdir.c).    *)
(* Bytes are 0..255.  writeData keeps its window in a char array, so the   *)
(* values it hands to writeByte are signed (-128..127).                    *)
(***************************************************************************)
EXTENDS Integers, Sequences, FiniteSets

VARIABLES cas, baudrate, silence_time, pc, pos, eof, out, marks, diag, wb,
          waveheader, wd, fr, sk, dir

vars == <<cas, baudrate, silence_time, pc, pos, eof, out, marks, diag, wb,
          waveheader, wd, fr, sk, dir>>

(* ------------------------------------------------------------------ *)
(* Program constants                                                   *)
(* ------------------------------------------------------------------ *)

OUTPUT_FREQUENCY == 43200
SHORT_SILENCE == OUTPUT_FREQUENCY
LONG_SILENCE == OUTPUT_FREQUENCY * 2
LONG_PULSE == 1200
SHORT_PULSE == 2400
\* lib/caslib.h, the header that declares the WriteBuffer interface main and
\* caslib.c use (the older caslib.h has 16000 and 4000).
SYNC_INITIAL == 8000
SYNC_BLOCK == 2000
WRITE_BUFFER_SIZE == 16384
EOF_MARKER == 26
SizeofWaveHeader == 44

HEADER == <<31, 166, 222, 186, 204, 19, 125, 116>>
ASCII == [i \in 1..10 |-> 234]
BIN == [i \in 1..10 |-> 208]
BASIC == [i \in 1..10 |-> 211]

BaudRates == {1200, 2400}

(* ------------------------------------------------------------------ *)
(* Bounds of the model                                                 *)
(* ------------------------------------------------------------------ *)

\* An image is the concatenation of at most MaxChunks chunks.
MaxChunks == 3
\* Images handed to a single writeData call hold at most MaxDataChunks chunks.
MaxDataChunks == 2
\* writeSync is also called with every unit count up to MaxUnits.
MaxUnits == 3

\* Ten bytes that miss the ASCII identifier in the last byte only.
NearAscii == [i \in 1..10 |-> IF i = 10 THEN 208 ELSE 234]

\* The pieces images are built from: the marker alone and followed by each
\* identifier, ten bytes that are no identifier, the EOF sentinel, an
\* ordinary byte, and the marker's first byte (a partial marker match, and
\* with the marker after it the overlap case).
Chunks ==
  {HEADER, HEADER \o ASCII, HEADER \o BIN, HEADER \o BASIC, NearAscii,
   <<EOF_MARKER>>, <<65>>, <<31>>}

RECURSIVE ImagesOf(_)
ImagesOf(n) ==
  IF n = 0 THEN {<<>>}
  ELSE {c \o img : c \in Chunks, img \in ImagesOf(n - 1)}

Images == UNION {ImagesOf(n) : n \in 0..MaxChunks}
DataImages == UNION {ImagesOf(n) : n \in 0..MaxDataChunks}

\* silence_time: LONG_SILENCE by default, OUTPUT_FREQUENCY * atof(seconds)
\* with -s seconds (here -s 0.5).
SilenceTimes == {LONG_SILENCE, OUTPUT_FREQUENCY \div 2}

(* ------------------------------------------------------------------ *)
(* Bytes and chars                                                     *)
(* ------------------------------------------------------------------ *)

\* Storing an int 0..255 into a char (window[window_size++] = byte).
ToChar(b) == IF b >= 128 THEN b - 256 ELSE b
\* The object representation memcmp compares (unsigned char).
ToByte(c) == c % 256

Range(s) == {s[i] : i \in 1..Len(s)}

\* Mutant of MatchAt: only the first byte is compared.
MatchAtFirstByte(img, p, pat) ==
  /\ p + Len(pat) <= Len(img)
  /\ img[p + 1] = pat[1]

\* !memcmp(&cas[p], pat, n) with the bounds check the callers make first.
MatchAt(img, p, pat) ==
  /\ p + Len(pat) <= Len(img)
  /\ \A i \in 1..Len(pat) : img[p + i] = pat[i]

(* ------------------------------------------------------------------ *)
(* Tone synthesizer and framer (caslib.c)                              *)
(* ------------------------------------------------------------------ *)

\* Mutants of PulseLength: the frequency, or the baud rate, left out.
PulseLengthNoFreq(baud, freq) == OUTPUT_FREQUENCY \div baud
PulseLengthNoBaud(baud, freq) == OUTPUT_FREQUENCY \div freq

\* baudrate * (freq / 1200.0): exact, the baud rates being multiples of 1200.
PulseDivisor(baud, freq) == (baud * freq) \div 1200

\* (uint32_t)length, length = output_frequency / (baudrate * (freq / 1200.0)).
PulseLength(baud, freq) == OUTPUT_FREQUENCY \div PulseDivisor(baud, freq)

\* (unsigned int)(n * table_step), table_step = 360.0 / length with the
\* untruncated length: n * 360 * (baudrate * freq / 1200) / output_frequency.
TableIndex(n, baud, freq) ==
  (n * 360 * PulseDivisor(baud, freq)) \div OUTPUT_FREQUENCY

\* writePulse: the sine-table indices of the samples it puts, in order.
PulseIndices(baud, freq) ==
  [k \in 1..PulseLength(baud, freq) |-> TableIndex(k - 1, baud, freq)]

\* Mutant of SyncPulses: the pulse count not scaled by the baud rate.
SyncPulsesUnscaled(pulse_count, baud) == pulse_count

\* writeSync: the loop bound (int)(pulse_count * (baudrate / 1200.0)).
SyncPulses(pulse_count, baud) == (pulse_count * baud) \div 1200

\* writeSync: the frequency of each pulse.
SyncTone == SHORT_PULSE

\* Mutant of DataTones: a 1 bit is a single SHORT pulse.
RECURSIVE DataTonesOnePulse(_, _)
DataTonesOnePulse(byte, i) ==
  IF i = 8 THEN <<>>
  ELSE (IF byte % 2 = 1 THEN <<SHORT_PULSE>> ELSE <<LONG_PULSE>>)
       \o DataTonesOnePulse(byte \div 2, i + 1)

\* writeByte, data bits: bit i of the loop (byte & 1, then byte >>= 1).
RECURSIVE DataTones(_, _)
DataTones(byte, i) ==
  IF i = 8 THEN <<>>
  ELSE (IF byte % 2 = 1 THEN <<SHORT_PULSE, SHORT_PULSE>> ELSE <<LONG_PULSE>>)
       \o DataTones(byte \div 2, i + 1)

\* Mutant of ByteTones: one stop bit (two short pulses) instead of two.
ByteTonesOneStopBit(byte) ==
  <<LONG_PULSE>> \o DataTones(byte, 0) \o [i \in 1..2 |-> SHORT_PULSE]

\* writeByte: start bit, 8 data bits LSB first, 4 short pulses.
ByteTones(byte) ==
  <<LONG_PULSE>> \o DataTones(byte, 0) \o [i \in 1..4 |-> SHORT_PULSE]

RECURSIVE TonesSamples(_, _)
TonesSamples(tones, baud) ==
  IF tones = <<>> THEN 0
  ELSE PulseLength(baud, Head(tones)) + TonesSamples(Tail(tones), baud)

\* Samples writeByte puts, for every value it is called with (bytes, and the
\* signed chars of writeData's window) and both baud rates.
ByteSamplesTable ==
  [byte \in (0 - 128)..255, baud \in {1200, 2400} |->
     TonesSamples(ByteTones(byte), baud)]

\* Samples writeByte puts for one byte.
ByteSamples(byte, baud) == ByteSamplesTable[byte, baud]

\* Samples writeSync puts.
SyncSamples(pulse_count, baud) ==
  SyncPulses(pulse_count, baud) * PulseLength(baud, SyncTone)

\* Samples writeSilence puts.
SilenceSamples(sample_count) == sample_count

(* ------------------------------------------------------------------ *)
(* PCM sink (caslib.c)                                                 *)
(* ------------------------------------------------------------------ *)

\* flushWriteBuffer
FlushWriteBuffer(b) ==
  IF b.position > 0
  THEN [position |-> 0, written |-> b.written + b.position]
  ELSE b

\* Mutant of PutBytes: a call series flushes at most one full buffer.
PutBytesOneFlush(b, n) ==
  [position |-> (b.position + n) % WRITE_BUFFER_SIZE,
   written |-> b.written
               + (IF b.position + n >= WRITE_BUFFER_SIZE
                  THEN WRITE_BUFFER_SIZE ELSE 0)]

\* n consecutive putByte calls: the buffer is flushed each time it fills.
PutBytes(b, n) ==
  [position |-> (b.position + n) % WRITE_BUFFER_SIZE,
   written |-> b.written
               + WRITE_BUFFER_SIZE * ((b.position + n) \div WRITE_BUFFER_SIZE)]

(* ------------------------------------------------------------------ *)
(* PCM sink with its contents (caslib.c)                               *)
(* ------------------------------------------------------------------ *)

\* The buffer, the output file and the bytes put are byte sequences held as
\* runs of equal bytes, <<[byte, n], ...>>: no run is empty and neighbouring
\* runs differ in their byte.  UNINIT stands for a byte never stored.
UNINIT == 0 - 1

RECURSIVE RunsLen(_)
RunsLen(r) == IF r = <<>> THEN 0 ELSE r[1].n + RunsLen(Tail(r))

RunsAppend(r, byte, n) ==
  IF n <= 0 THEN r
  ELSE IF r # <<>> /\ r[Len(r)].byte = byte
  THEN [r EXCEPT ![Len(r)].n = @ + n]
  ELSE Append(r, [byte |-> byte, n |-> n])

RECURSIVE RunsConcat(_, _)
RunsConcat(a, b) ==
  IF b = <<>> THEN a
  ELSE RunsConcat(RunsAppend(a, b[1].byte, b[1].n), Tail(b))

\* The first k bytes.
RECURSIVE RunsTake(_, _)
RunsTake(r, k) ==
  IF k <= 0 \/ r = <<>> THEN <<>>
  ELSE IF r[1].n <= k THEN <<r[1]>> \o RunsTake(Tail(r), k - r[1].n)
  ELSE <<[byte |-> r[1].byte, n |-> k]>>

\* All but the first k bytes.
RECURSIVE RunsDrop(_, _)
RunsDrop(r, k) ==
  IF r = <<>> THEN <<>>
  ELSE IF k <= 0 THEN r
  ELSE IF r[1].n <= k THEN RunsDrop(Tail(r), k - r[1].n)
  ELSE <<[byte |-> r[1].byte, n |-> r[1].n - k]>> \o Tail(r)

\* buffer[p] .. buffer[p + n - 1] = byte.
RunsStore(buffer, p, byte, n) ==
  RunsConcat(RunsAppend(RunsTake(buffer, p), byte, n), RunsDrop(buffer, p + n))

\* initWriteBuffer: position 0, the buffer array not initialised, nothing in
\* the file after the header.  put is the sequence of bytes given to putByte,
\* hi the highest buffer index stored at, calls the number of steps taken.
SkInit ==
  [op |-> "init", buffer |-> <<[byte |-> UNINIT, n |-> WRITE_BUFFER_SIZE]>>,
   position |-> 0, file |-> <<>>, put |-> <<>>, hi |-> 0 - 1, calls |-> 0,
   done |-> FALSE]

\* Mutant of SkFlush: the bytes are written, the position is not reset.
SkFlushNoReset(s) ==
  IF s.position > 0
  THEN [s EXCEPT !.file = RunsConcat(s.file, RunsTake(s.buffer, s.position)),
                 !.op = "flush"]
  ELSE [s EXCEPT !.op = "flush"]

\* flushWriteBuffer: fwrite(buffer, 1, position, file); position = 0.
SkFlush(s) ==
  IF s.position > 0
  THEN [s EXCEPT !.file = RunsConcat(s.file, RunsTake(s.buffer, s.position)),
                 !.position = 0,
                 !.op = "flush"]
  ELSE [s EXCEPT !.op = "flush"]

\* Mutant of SkFull: the buffer is flushed one byte late.
SkFullLate(position) == position > WRITE_BUFFER_SIZE

\* putByte: if (wb->position >= WRITE_BUFFER_SIZE).
SkFull(position) == position >= WRITE_BUFFER_SIZE

\* n >= 1 consecutive putByte calls with the same byte, of which none before
\* the last finds the buffer full (n = 1 is putByte itself): each stores at
\* buffer[position++]; the test after the last store flushes a full buffer.
SkPutBytes(s, byte, n) ==
  LET s1 == [s EXCEPT !.buffer = RunsStore(s.buffer, s.position, byte, n),
                      !.position = s.position + n,
                      !.put = RunsAppend(s.put, byte, n),
                      !.hi = IF s.position + n - 1 > s.hi
                             THEN s.position + n - 1 ELSE s.hi,
                      !.op = "put"]
  IN IF SkFull(s1.position) THEN SkFlush(s1) ELSE s1

(* ------------------------------------------------------------------ *)
(* writeData (caslib.c): the 8-byte sliding window                     *)
(* ------------------------------------------------------------------ *)

\* Mutant of WdCall: the position counts from the start of the call, so the
\* value returned is the number of bytes consumed, not the cursor.
WdCallRelative(p, stale) ==
  [pc |-> "call", input |-> p, window |-> <<>>, position |-> 0,
   eof |-> stale, sent |-> <<>>, from |-> p, stale |-> stale]

\* main hands writeData the image and a cursor; the body is the sliding
\* window of caslib.c, which reads the image as a stream from that cursor.
\* A cursor beyond the image reads EOF at once (fgetc after a seek past the
\* end), so nothing is transmitted and the cursor comes back unchanged.
\* An activation of writeData: input is the stream offset of the next fgetc,
\* window the filled part of window[8], sent the values given to writeByte.
WdCall(p, stale) ==
  [pc |-> "call", input |-> p, window |-> <<>>, position |-> p,
   eof |-> stale, sent |-> <<>>, from |-> p, stale |-> stale]

\* Mutant of WdResetEof: the flag of the previous call is kept.
WdKeepEof(stale) == stale

\* *eof = false on entry.
WdResetEof(stale) == FALSE

\* Entry: window cleared, *eof reset.
WdEnter(st) ==
  [st EXCEPT !.pc = "loop", !.window = <<>>, !.eof = WdResetEof(st.eof)]

\* The window holds the complete marker.
WdWindowIsHeader(w) ==
  Len(w) = 8 /\ \A i \in 1..8 : ToByte(w[i]) = HEADER[i]

\* fseek(input, *position, SEEK_SET) when the marker is found.
WdSeekBack(st) == st.position

\* Mutant of WdTail: the rest of the window is dropped at the end of the image.
WdTailDropped(w) == <<>>

\* The values transmitted after fgetc returned EOF: what the window holds.
WdTail(w) == w

\* One pass of the while (1) loop: one fgetc.
WdStep(img, st) ==
  IF st.input >= Len(img)
  THEN \* fgetc returns EOF: transmit what the window still holds.
       [st EXCEPT !.pc = "ret",
                  !.sent = st.sent \o WdTail(st.window),
                  !.eof = st.eof \/ (EOF_MARKER \in Range(WdTail(st.window))),
                  !.position = st.position + Len(st.window),
                  !.window = <<>>]
  ELSE LET byte == img[st.input + 1]
           full == Len(st.window) = 8
           w1 == IF full THEN Tail(st.window) ELSE st.window
           w2 == Append(w1, ToChar(byte))
           s1 == [st EXCEPT
                    !.sent = IF full THEN Append(st.sent, st.window[1])
                             ELSE st.sent,
                    !.eof = IF full THEN st.eof \/ st.window[1] = EOF_MARKER
                            ELSE st.eof,
                    !.position = IF full THEN st.position + 1
                                 ELSE st.position,
                    !.window = w2,
                    !.input = st.input + 1]
       IN IF WdWindowIsHeader(w2)
          THEN [s1 EXCEPT !.pc = "ret", !.input = WdSeekBack(s1)]
          ELSE s1

\* The loop up to its return; each pass works on the state the one before
\* left (bound once per pass).
RECURSIVE WdRun(_, _)
WdRun(img, st) ==
  LET run[s \in {st}] ==
        IF s.pc = "ret" THEN s ELSE WdRun(img, WdStep(img, s))
  IN run[st]

\* A whole call of writeData from cursor p: the returned cursor, the eof flag
\* and the values transmitted.
WriteData(img, p, stale) ==
  LET r == WdRun(img, WdEnter(WdCall(p, stale)))
  IN [pos |-> r.position, eof |-> r.eof, sent |-> r.sent, from |-> p]

(* ------------------------------------------------------------------ *)
(* cas2wav main: the scan                                              *)
(* ------------------------------------------------------------------ *)

cas_size == Len(cas)

Silence(n) == [ev |-> "silence", n |-> n]
Sync(units) == [ev |-> "sync", n |-> units]
Data(d) == [ev |-> "data", from |-> d.from, to |-> d.pos, bytes |-> d.sent,
            eof |-> d.eof]

\* Samples one emitted segment puts into the sink at a baud rate.
RECURSIVE BytesSamples(_, _)
BytesSamples(bytes, baud) ==
  IF bytes = <<>> THEN 0
  ELSE ByteSamples(Head(bytes), baud) + BytesSamples(Tail(bytes), baud)

EventSamples(e, baud) ==
  CASE e.ev = "silence" -> SilenceSamples(e.n)
    [] e.ev = "sync" -> SyncSamples(e.n, baud)
    [] e.ev = "data" -> BytesSamples(e.bytes, baud)

\* silence + sync + payload segment, as main emits them.
Emit(b, silence, units, d) ==
  PutBytes(PutBytes(PutBytes(b, SilenceSamples(silence)),
                    SyncSamples(units, baudrate)),
           BytesSamples(d.sent, baudrate))

\* Mutant of ScanGuard: the loop is left when exactly 8 bytes remain.
ScanGuardStrict == pos + Len(HEADER) < cas_size

\* while (pos + sizeof(HEADER) <= cas_size)
ScanGuard == pos + Len(HEADER) <= cas_size

\* Mutant of SkipAdvance: the scan moves on by a whole 8-byte chunk.
SkipAdvanceChunk(p) == p + Len(HEADER)

\* The one-byte advance on a mismatch: pos++.
SkipAdvance(p) == p + 1

\* Mutant of ContinueAt: the 10 bytes after the marker are skipped with it.
ContinueAtIdentifier(p) == p + Len(HEADER) + 10

\* Mutant of ContinueAt: the marker before the segment is not skipped.
ContinueAtSame(p) == p

\* The cursor given to writeData for a continuation segment.
ContinueAt(p) == p + Len(HEADER)

\* The do-while condition of the ASCII branch.
AsciiAgain(d) == ~d.eof /\ d.pos < cas_size

IdleWd == [pc |-> "idle", input |-> 0, window |-> <<>>, position |-> 0,
           eof |-> FALSE, sent |-> <<>>, from |-> 0, stale |-> FALSE]
IdleFr == [op |-> "idle", arg |-> 0, tones |-> <<>>, indices |-> <<>>,
           nput |-> 0]
IdleSk == [op |-> "idle"]
IdleDir == [pc |-> "idle"]

Init ==
  /\ cas \in Images
  /\ baudrate \in BaudRates
  /\ silence_time \in SilenceTimes
  /\ pc = "scan"
  /\ pos = 0
  /\ eof = FALSE   \* main never reads eof before writeData has set it
  /\ out = <<>>
  /\ marks = <<>>
  /\ diag = <<>>
  /\ wb = [position |-> 0, written |-> 0]
  /\ waveheader = [RiffSize |-> 0, nDataBytes |-> 0]
  /\ wd = IdleWd
  /\ fr = IdleFr
  /\ sk = IdleSk
  /\ dir = IdleDir

\* Mutant of Report: a message already reported is not reported again.
ReportOnce(log, msg, at, to) ==
  IF \E i \in 1..Len(log) : log[i].msg = msg THEN log
  ELSE Append(log, [msg |-> msg, at |-> at, to |-> to])

\* printf / fprintf(stderr, ...) of a diagnostic: one line each time; at and
\* to are the cursor before and after the bytes the message is about.
Report(log, msg, at, to) == Append(log, [msg |-> msg, at |-> at, to |-> to])

\* Non-header data: skip one byte.
SkipByte ==
  /\ pc = "scan"
  /\ ScanGuard
  /\ ~MatchAt(cas, pos, HEADER)
  /\ pos' = SkipAdvance(pos)
  /\ diag' = Report(diag, "skipping unhandled data", pos, SkipAdvance(pos))
  /\ UNCHANGED <<cas, baudrate, silence_time, pc, eof, out, marks, wb,
                 waveheader, wd, fr, sk, dir>>

\* Marker, then the ASCII identifier: first segment, then the do-while.
MatchAscii ==
  /\ pc = "scan"
  /\ ScanGuard
  /\ MatchAt(cas, pos, HEADER)
  /\ pos + Len(HEADER) + 10 <= cas_size
  /\ MatchAt(cas, pos + Len(HEADER), ASCII)
  /\ \E d \in {WriteData(cas, pos + Len(HEADER), eof)} :
        /\ out' = out \o <<Silence(silence_time), Sync(SYNC_INITIAL), Data(d)>>
        /\ wb' = Emit(wb, silence_time, SYNC_INITIAL, d)
        /\ pos' = d.pos
        /\ eof' = d.eof
  /\ marks' = Append(marks, [at |-> pos, how |-> "match"])
  /\ pc' = "ascii"
  /\ UNCHANGED <<cas, baudrate, silence_time, diag, waveheader, wd, fr, sk, dir>>

\* One pass of the ASCII do-while body and its condition.
AsciiBlock ==
  /\ pc = "ascii"
  /\ \E d \in {WriteData(cas, ContinueAt(pos), eof)} :
        /\ out' = out \o <<Silence(SHORT_SILENCE), Sync(SYNC_BLOCK), Data(d)>>
        /\ wb' = Emit(wb, SHORT_SILENCE, SYNC_BLOCK, d)
        /\ pos' = d.pos
        /\ eof' = d.eof
        /\ pc' = IF AsciiAgain(d) THEN "ascii" ELSE "scan"
  /\ marks' = Append(marks, [at |-> pos, how |-> "continue"])
  /\ UNCHANGED <<cas, baudrate, silence_time, diag, waveheader, wd, fr, sk, dir>>

\* Mutant of BinaryEmission: the data block is left out.
BinaryEmissionOneSegment(d1, d2) ==
  <<Silence(silence_time), Sync(SYNC_INITIAL), Data(d1)>>

\* Mutant of BinaryEmission: the data block gets the initial sync too.
BinaryEmissionInitialSync(d1, d2) ==
  <<Silence(silence_time), Sync(SYNC_INITIAL), Data(d1),
    Silence(SHORT_SILENCE), Sync(SYNC_INITIAL), Data(d2)>>

\* What the BIN/BASIC branch emits: header block, then the data block.
BinaryEmission(d1, d2) ==
  <<Silence(silence_time), Sync(SYNC_INITIAL), Data(d1),
    Silence(SHORT_SILENCE), Sync(SYNC_BLOCK), Data(d2)>>

\* Marker, then the BIN or BASIC identifier: two segments.
MatchBinary ==
  /\ pc = "scan"
  /\ ScanGuard
  /\ MatchAt(cas, pos, HEADER)
  /\ pos + Len(HEADER) + 10 <= cas_size
  /\ ~MatchAt(cas, pos + Len(HEADER), ASCII)
  /\ \/ MatchAt(cas, pos + Len(HEADER), BIN)
     \/ MatchAt(cas, pos + Len(HEADER), BASIC)
  /\ \E d1 \in {WriteData(cas, pos + Len(HEADER), eof)} :
      \E d2 \in {WriteData(cas, ContinueAt(d1.pos), d1.eof)} :
        /\ out' = out \o BinaryEmission(d1, d2)
        /\ wb' = Emit(Emit(wb, silence_time, SYNC_INITIAL, d1),
                      SHORT_SILENCE, SYNC_BLOCK, d2)
        /\ pos' = d2.pos
        /\ eof' = d2.eof
        /\ marks' = marks \o <<[at |-> pos, how |-> "match"],
                               [at |-> d1.pos, how |-> "continue"]>>
  /\ UNCHANGED <<cas, baudrate, silence_time, pc, diag, waveheader, wd, fr, sk,
                 dir>>

\* Mutant of UnknownSilence: the configured silence, as in the other branches.
UnknownSilenceConfigured == silence_time

\* The silence of the unknown-identifier branch: writeSilence(LONG_SILENCE).
UnknownSilence == LONG_SILENCE

\* Marker, then 10 bytes that are no known identifier.
MatchUnknown ==
  /\ pc = "scan"
  /\ ScanGuard
  /\ MatchAt(cas, pos, HEADER)
  /\ pos + Len(HEADER) + 10 <= cas_size
  /\ ~MatchAt(cas, pos + Len(HEADER), ASCII)
  /\ ~MatchAt(cas, pos + Len(HEADER), BIN)
  /\ ~MatchAt(cas, pos + Len(HEADER), BASIC)
  /\ \E d \in {WriteData(cas, pos + Len(HEADER), eof)} :
        /\ out' = out \o <<Silence(UnknownSilence), Sync(SYNC_INITIAL),
                            Data(d)>>
        /\ wb' = Emit(wb, UnknownSilence, SYNC_INITIAL, d)
        /\ pos' = d.pos
        /\ eof' = d.eof
  /\ diag' = Report(diag, "unknown file type: using long header", pos,
                    pos + Len(HEADER))
  /\ marks' = Append(marks, [at |-> pos, how |-> "match"])
  /\ UNCHANGED <<cas, baudrate, silence_time, pc, waveheader, wd, fr, sk, dir>>

\* Mutant of TruncatedSilence: the fixed long silence of the unknown branch.
TruncatedSilenceLong == LONG_SILENCE

\* The silence of the truncated-identifier branch: args.silence_time.
TruncatedSilence == silence_time

\* Marker with fewer than 10 bytes after it.
MatchTruncated ==
  /\ pc = "scan"
  /\ ScanGuard
  /\ MatchAt(cas, pos, HEADER)
  /\ ~(pos + Len(HEADER) + 10 <= cas_size)
  /\ \E d \in {WriteData(cas, pos + Len(HEADER), eof)} :
        /\ out' = out \o <<Silence(TruncatedSilence), Sync(SYNC_INITIAL),
                            Data(d)>>
        /\ wb' = Emit(wb, TruncatedSilence, SYNC_INITIAL, d)
        /\ pos' = d.pos
        /\ eof' = d.eof
  /\ diag' = Report(diag, "unknown file type: using initial sync", pos,
                    pos + Len(HEADER))
  /\ marks' = Append(marks, [at |-> pos, how |-> "match"])
  /\ UNCHANGED <<cas, baudrate, silence_time, pc, waveheader, wd, fr, sk, dir>>

\* The loop ends: flush, then rewrite the header with the data size.
Finish ==
  /\ pc = "scan"
  /\ ~ScanGuard
  /\ LET b == FlushWriteBuffer(wb)
         size == (SizeofWaveHeader + b.written) - SizeofWaveHeader
     IN /\ wb' = b
        /\ waveheader' = [RiffSize |-> size, nDataBytes |-> size]
  /\ pc' = "done"
  /\ UNCHANGED <<cas, baudrate, silence_time, pos, eof, out, marks, diag,
                 wd, fr, sk, dir>>

Next ==
  \/ SkipByte
  \/ MatchAscii
  \/ AsciiBlock
  \/ MatchBinary
  \/ MatchUnknown
  \/ MatchTruncated
  \/ Finish

Spec == Init /\ [][Next]_vars

\* The runs with the default silence: the silence setting is only ever the
\* argument of writeSilence and decides no branch.
InitLive == Init /\ silence_time = LONG_SILENCE

\* main runs without waiting for anything: a step that can be taken is taken.
SpecLive == InitLive /\ [][Next]_vars /\ WF_vars(Next)

(* ------------------------------------------------------------------ *)
(* cas2wav main as a function of the image                             *)
(* ------------------------------------------------------------------ *)

\* The boundaries of a payload segment.
Segment(d) == [ev |-> "data", from |-> d.from, to |-> d.pos]

\* The do-while of the ASCII branch from cursor p: the events it emits and
\* the cursor it leaves.
RECURSIVE AsciiEvents(_, _)
AsciiEvents(img, p) ==
  LET d == WriteData(img, ContinueAt(p), FALSE)
      body == <<Silence(SHORT_SILENCE), Sync(SYNC_BLOCK), Segment(d)>>
  IN IF ~d.eof /\ d.pos < Len(img)
     THEN LET rest == AsciiEvents(img, d.pos)
          IN [events |-> body \o rest.events, pos |-> rest.pos]
     ELSE [events |-> body, pos |-> d.pos]

\* The scan loop from cursor p with the configured silence sil: the silences,
\* syncs and segment boundaries it emits, in order.
RECURSIVE ScanEvents(_, _, _)
ScanEvents(img, p, sil) ==
  IF ~(p + Len(HEADER) <= Len(img)) THEN <<>>
  ELSE IF ~MatchAt(img, p, HEADER) THEN ScanEvents(img, SkipAdvance(p), sil)
  ELSE
    LET q == p + Len(HEADER)
        d == WriteData(img, q, FALSE)
        first == <<Silence(sil), Sync(SYNC_INITIAL), Segment(d)>>
    IN IF q + 10 <= Len(img)
       THEN IF MatchAt(img, q, ASCII)
            THEN LET a == AsciiEvents(img, d.pos)
                 IN first \o a.events \o ScanEvents(img, a.pos, sil)
            ELSE IF MatchAt(img, q, BIN) \/ MatchAt(img, q, BASIC)
            THEN LET d2 == WriteData(img, ContinueAt(d.pos), FALSE)
                 IN first
                    \o <<Silence(SHORT_SILENCE), Sync(SYNC_BLOCK), Segment(d2)>>
                    \o ScanEvents(img, d2.pos, sil)
            ELSE <<Silence(LONG_SILENCE), Sync(SYNC_INITIAL), Segment(d)>>
                 \o ScanEvents(img, d.pos, sil)
       ELSE first \o ScanEvents(img, d.pos, sil)

(* ------------------------------------------------------------------ *)
(* SpecData: one call of writeData, step by step                       *)
(* ------------------------------------------------------------------ *)

\* The start cursors of a call: every offset of the image, 0..length.
StartCursors(img) == 0..Len(img)

InitData ==
  /\ cas \in DataImages
  /\ \E p \in StartCursors(cas), stale \in BOOLEAN : wd = WdCall(p, stale)
  /\ baudrate = 1200
  /\ silence_time = LONG_SILENCE
  /\ pc = "idle"
  /\ pos = 0
  /\ eof = FALSE
  /\ out = <<>>
  /\ marks = <<>>
  /\ diag = <<>>
  /\ wb = [position |-> 0, written |-> 0]
  /\ waveheader = [RiffSize |-> 0, nDataBytes |-> 0]
  /\ fr = IdleFr
  /\ sk = IdleSk
  /\ dir = IdleDir

\* Entry of writeData.
DataEnter ==
  /\ wd.pc = "call"
  /\ wd' = WdEnter(wd)
  /\ UNCHANGED <<cas, baudrate, silence_time, pc, pos, eof, out, marks, diag,
                 wb, waveheader, fr, sk, dir>>

\* fgetc returns a byte.
DataReadByte ==
  /\ wd.pc = "loop"
  /\ wd.input < Len(cas)
  /\ wd' = WdStep(cas, wd)
  /\ UNCHANGED <<cas, baudrate, silence_time, pc, pos, eof, out, marks, diag,
                 wb, waveheader, fr, sk, dir>>

\* fgetc returns EOF.
DataReadEof ==
  /\ wd.pc = "loop"
  /\ wd.input >= Len(cas)
  /\ wd' = WdStep(cas, wd)
  /\ UNCHANGED <<cas, baudrate, silence_time, pc, pos, eof, out, marks, diag,
                 wb, waveheader, fr, sk, dir>>

NextData ==
  \/ DataEnter
  \/ DataReadByte
  \/ DataReadEof

SpecData == InitData /\ [][NextData]_vars

(* ------------------------------------------------------------------ *)
(* SpecFramer: single calls of the framer primitives                   *)
(* ------------------------------------------------------------------ *)

\* The values writeByte is called with: bytes, and the signed chars of
\* writeData's window.
ByteArgs == (0 - 128)..255

\* The unit counts writeSync is called with.
SyncArgs == {SYNC_INITIAL, SYNC_BLOCK} \cup (0..MaxUnits)

\* The sample counts writeSilence is called with.
SilenceArgs == {SHORT_SILENCE, LONG_SILENCE} \cup SilenceTimes

InitFramer ==
  /\ cas = <<>>
  /\ baudrate \in BaudRates
  /\ silence_time = LONG_SILENCE
  /\ pc = "idle"
  /\ pos = 0
  /\ eof = FALSE
  /\ out = <<>>
  /\ marks = <<>>
  /\ diag = <<>>
  /\ wb = [position |-> 0, written |-> 0]
  /\ waveheader = [RiffSize |-> 0, nDataBytes |-> 0]
  /\ wd = IdleWd
  /\ fr = IdleFr
  /\ sk = IdleSk
  /\ dir = IdleDir

FrWritePulse ==
  /\ \E freq \in {LONG_PULSE, SHORT_PULSE} :
       fr' = [op |-> "pulse", arg |-> freq, tones |-> <<freq>>,
              indices |-> PulseIndices(baudrate, freq),
              nput |-> Len(PulseIndices(baudrate, freq))]
  /\ UNCHANGED <<cas, baudrate, silence_time, pc, pos, eof, out, marks, diag,
                 wb, waveheader, wd, sk, dir>>

FrWriteByte ==
  /\ \E byte \in ByteArgs :
       fr' = [op |-> "byte", arg |-> byte, tones |-> ByteTones(byte),
              indices |-> <<>>, nput |-> ByteSamples(byte, baudrate)]
  /\ UNCHANGED <<cas, baudrate, silence_time, pc, pos, eof, out, marks, diag,
                 wb, waveheader, wd, sk, dir>>

FrWriteSync ==
  /\ \E units \in SyncArgs :
       fr' = [op |-> "sync", arg |-> units,
              tones |-> [i \in 1..SyncPulses(units, baudrate) |-> SyncTone],
              indices |-> <<>>, nput |-> SyncSamples(units, baudrate)]
  /\ UNCHANGED <<cas, baudrate, silence_time, pc, pos, eof, out, marks, diag,
                 wb, waveheader, wd, sk, dir>>

FrWriteSilence ==
  /\ \E n \in SilenceArgs :
       fr' = [op |-> "silence", arg |-> n, tones |-> <<>>, indices |-> <<>>,
              nput |-> SilenceSamples(n)]
  /\ UNCHANGED <<cas, baudrate, silence_time, pc, pos, eof, out, marks, diag,
                 wb, waveheader, wd, sk, dir>>

NextFramer ==
  \/ FrWritePulse
  \/ FrWriteByte
  \/ FrWriteSync
  \/ FrWriteSilence

SpecFramer == InitFramer /\ [][NextFramer]_vars

(* ------------------------------------------------------------------ *)
(* SpecSink: putByte and flushWriteBuffer with the buffer's contents   *)
(* ------------------------------------------------------------------ *)

\* At most MaxSinkCalls groups of putByte calls before the final flush.
MaxSinkCalls == 3

\* The bytes put: the silence level and the extremes of the sine table.
SinkBytes == {128, 1, 255}

\* The lengths of the groups of putByte calls: one call, the samples of one
\* LONG pulse, and the calls that fill the buffer but for one byte, or fill it.
SinkCounts(position) ==
  LET room == WRITE_BUFFER_SIZE - position
  IN {n \in {1, PulseLength(1200, LONG_PULSE), room - 1, room} :
        n = 1 \/ (n >= 1 /\ n <= room)}

InitSink ==
  /\ cas = <<>>
  /\ baudrate = 1200
  /\ silence_time = LONG_SILENCE
  /\ pc = "idle"
  /\ pos = 0
  /\ eof = FALSE
  /\ out = <<>>
  /\ marks = <<>>
  /\ diag = <<>>
  /\ wb = [position |-> 0, written |-> 0]
  /\ waveheader = [RiffSize |-> 0, nDataBytes |-> 0]
  /\ wd = IdleWd
  /\ fr = IdleFr
  /\ sk = SkInit
  /\ dir = IdleDir

\* A group of putByte calls; wb follows with the byte counts alone.
SinkPut ==
  /\ ~sk.done
  /\ sk.calls < MaxSinkCalls
  /\ \E byte \in SinkBytes, n \in SinkCounts(sk.position) :
       /\ sk' = [SkPutBytes(sk, byte, n) EXCEPT !.calls = sk.calls + 1]
       /\ wb' = PutBytes(wb, n)
  /\ UNCHANGED <<cas, baudrate, silence_time, pc, pos, eof, out, marks, diag,
                 waveheader, wd, fr, dir>>

\* main's flushWriteBuffer after the last putByte.
SinkFlush ==
  /\ ~sk.done
  /\ sk' = [SkFlush(sk) EXCEPT !.done = TRUE]
  /\ wb' = FlushWriteBuffer(wb)
  /\ UNCHANGED <<cas, baudrate, silence_time, pc, pos, eof, out, marks, diag,
                 waveheader, wd, fr, dir>>

NextSink ==
  \/ SinkPut
  \/ SinkFlush

SpecSink == InitSink /\ [][NextSink]_vars

(* ------------------------------------------------------------------ *)
(* SpecDir: casdir's main (casdir.c)                                   *)
(* ------------------------------------------------------------------ *)

\* An image is the concatenation of at most MaxDirChunks chunks.
MaxDirChunks == 4

\* enum next
NEXT_NONE == "NEXT_NONE"
NEXT_ASCII == "NEXT_ASCII"
NEXT_BINARY == "NEXT_BINARY"
NEXT_DATA == "NEXT_DATA"

\* A 6-character file name, "FILE  ".
Name6 == <<70, 73, 76, 69, 32, 32>>

\* The pieces casdir's images are built from: the marker alone and followed
\* by each identifier and a file name, 8 data bytes with a 0x1A, 8 bytes
\* read as addresses (start 8000, stop 8FFF, exec 0), and a single byte
\* (misaligned and truncated images).
DirChunks ==
  {HEADER, HEADER \o ASCII \o Name6, HEADER \o BIN \o Name6,
   HEADER \o BASIC \o Name6, <<65, 65, 65, 26, 65, 65, 65, 65>>,
   <<0, 128, 255, 143, 0, 0, 65, 65>>, <<65>>}

RECURSIVE DirImagesOf(_)
DirImagesOf(n) ==
  IF n = 0 THEN {<<>>}
  ELSE {c \o img : c \in DirChunks, img \in DirImagesOf(n - 1)}

DirImages == UNION {DirImagesOf(n) : n \in 0..MaxDirChunks}

\* fread(buffer, 1, n, ifile) at stream offset off: the bytes it reads.
Fread(img, off, n) ==
  SubSeq(img, off + 1, IF off + n <= Len(img) THEN off + n ELSE Len(img))

\* A uint16_t member of binary_header, low byte first.
Word(lo, hi) == lo + 256 * hi

\* The state before the loop: position 0, next NEXT_NONE, filename not
\* initialised; off is the stream offset of ifile, listing the lines printed.
DirInit ==
  [pc |-> "head", off |-> 0, position |-> 0, next |-> NEXT_NONE,
   filename |-> [i \in 1..6 |-> UNINIT], listing |-> <<>>]

\* Mutant of AsciiSkip: one chunk is skipped, whatever it holds.
AsciiSkipOneChunk(img, off, added) ==
  [off |-> off + Len(Fread(img, off, 8)), added |-> added + 8]

\* case NEXT_ASCII: while (fread(...) == 8 && memchr(...) == NULL)
\* position += 8; position += 8.  The stream offset it leaves and what it
\* adds to position.
RECURSIVE AsciiSkip(_, _, _)
AsciiSkip(img, off, added) ==
  LET c == Fread(img, off, 8)
  IN IF Len(c) = 8 /\ 26 \notin Range(c)
     THEN AsciiSkip(img, off + 8, added + 8)
     ELSE [off |-> off + Len(c), added |-> added + 8]

\* fread(filename, 1, 6, ifile): the bytes read replace the first ones.
ReadName(old, name) == name \o SubSeq(old, Len(name) + 1, 6)

\* The chunk the while condition reads.
DirChunk == Fread(cas, dir.off, 8)

InitDir ==
  /\ cas \in DirImages
  /\ baudrate = 1200
  /\ silence_time = LONG_SILENCE
  /\ pc = "idle"
  /\ pos = 0
  /\ eof = FALSE
  /\ out = <<>>
  /\ marks = <<>>
  /\ diag = <<>>
  /\ wb = [position |-> 0, written |-> 0]
  /\ waveheader = [RiffSize |-> 0, nDataBytes |-> 0]
  /\ wd = IdleWd
  /\ fr = IdleFr
  /\ sk = IdleSk
  /\ dir = DirInit

DirUnchanged ==
  UNCHANGED <<cas, baudrate, silence_time, pc, pos, eof, out, marks, diag,
              wb, waveheader, wd, fr, sk>>

\* fread returns fewer than 8 bytes: the loop ends.
DirEnd ==
  /\ dir.pc = "head"
  /\ Len(DirChunk) < 8
  /\ dir' = [dir EXCEPT !.pc = "done", !.off = dir.off + Len(DirChunk)]
  /\ DirUnchanged

\* A chunk that is not the marker.
DirPlain ==
  /\ dir.pc = "head"
  /\ Len(DirChunk) = 8
  /\ DirChunk # HEADER
  /\ dir' = [dir EXCEPT !.off = dir.off + 8, !.position = dir.position + 8]
  /\ DirUnchanged

\* Marker in NEXT_NONE, then a known identifier: the file name is read.
DirFile ==
  /\ dir.pc = "head"
  /\ DirChunk = HEADER
  /\ dir.next = NEXT_NONE
  /\ LET id == Fread(cas, dir.off + 8, 10)
         name == Fread(cas, dir.off + 18, 6)
         fname == ReadName(dir.filename, name)
     IN /\ Len(id) = 10
        /\ id \in {ASCII, BIN, BASIC}
        /\ dir' = [dir EXCEPT
                     !.off = dir.off + 18 + Len(name),
                     !.position = dir.position + 8 + 16,
                     !.filename = fname,
                     !.next = IF id = ASCII THEN NEXT_ASCII
                              ELSE IF id = BIN THEN NEXT_BINARY
                              ELSE NEXT_DATA,
                     !.listing =
                        IF id = ASCII
                        THEN Append(dir.listing,
                                    [kind |-> "ascii", name |-> fname])
                        ELSE IF id = BASIC
                        THEN Append(dir.listing,
                                    [kind |-> "basic", name |-> fname])
                        ELSE dir.listing]
  /\ DirUnchanged

\* Marker in NEXT_NONE, then 10 bytes that are no known identifier.
DirCustom ==
  /\ dir.pc = "head"
  /\ DirChunk = HEADER
  /\ dir.next = NEXT_NONE
  /\ LET id == Fread(cas, dir.off + 8, 10)
     IN /\ Len(id) = 10
        /\ id \notin {ASCII, BIN, BASIC}
        /\ dir' = [dir EXCEPT
                     !.off = dir.off + 18 - 2,
                     !.position = dir.position + 8 + 8,
                     !.listing = Append(dir.listing,
                                        [kind |-> "custom",
                                         at |-> dir.position + 8])]
  /\ DirUnchanged

\* Marker in NEXT_NONE with fewer than 10 bytes after it.
DirShortId ==
  /\ dir.pc = "head"
  /\ DirChunk = HEADER
  /\ dir.next = NEXT_NONE
  /\ LET id == Fread(cas, dir.off + 8, 10)
     IN /\ Len(id) < 10
        /\ dir' = [dir EXCEPT !.off = dir.off + 8 + Len(id),
                              !.position = dir.position + 8]
  /\ DirUnchanged

\* Marker in NEXT_ASCII: the chunks up to the one with 0x1A are skipped.
DirAscii ==
  /\ dir.pc = "head"
  /\ DirChunk = HEADER
  /\ dir.next = NEXT_ASCII
  /\ \E r \in {AsciiSkip(cas, dir.off + 8, 0)} :
       dir' = [dir EXCEPT !.off = r.off,
                          !.position = dir.position + 8 + r.added,
                          !.next = NEXT_NONE]
  /\ DirUnchanged

\* Marker in NEXT_BINARY: the addresses are read and the line is printed.
DirBinary ==
  /\ dir.pc = "head"
  /\ DirChunk = HEADER
  /\ dir.next = NEXT_BINARY
  /\ LET b == Fread(cas, dir.off + 8, 8)
     IN IF Len(b) = 8
        THEN LET start == Word(b[1], b[2])
                 stop == Word(b[3], b[4])
                 exec == IF Word(b[5], b[6]) = 0 THEN start
                         ELSE Word(b[5], b[6])
             IN dir' = [dir EXCEPT
                          !.off = dir.off + 16,
                          !.position = dir.position + 8 + 8,
                          !.next = NEXT_NONE,
                          !.listing = Append(dir.listing,
                                             [kind |-> "binary",
                                              name |-> dir.filename,
                                              start |-> start, stop |-> stop,
                                              exec |-> exec])]
        ELSE dir' = [dir EXCEPT !.off = dir.off + 8 + Len(b),
                                !.position = dir.position + 8]
  /\ DirUnchanged

\* Marker in NEXT_DATA.
DirData ==
  /\ dir.pc = "head"
  /\ DirChunk = HEADER
  /\ dir.next = NEXT_DATA
  /\ dir' = [dir EXCEPT !.off = dir.off + 8,
                        !.position = dir.position + 8,
                        !.next = NEXT_NONE]
  /\ DirUnchanged

NextDir ==
  \/ DirEnd
  \/ DirPlain
  \/ DirFile
  \/ DirCustom
  \/ DirShortId
  \/ DirAscii
  \/ DirBinary
  \/ DirData

SpecDir == InitDir /\ [][NextDir]_vars

(* ------------------------------------------------------------------ *)
(* Properties                                                          *)
(* ------------------------------------------------------------------ *)

\* The bytes (0..255) of the values a data segment gave to writeByte.
SentBytes(sent) == [i \in 1..Len(sent) |-> ToByte(sent[i])]

\* The lookahead definition of a payload segment's end: the first offset
\* q >= p at which the marker occurs, the image length when there is none.
NextMarker(img, p) ==
  IF \E q \in p..Len(img) : MatchAt(img, q, HEADER)
  THEN CHOOSE q \in p..Len(img) :
         /\ MatchAt(img, q, HEADER)
         /\ \A r \in p..(q - 1) : ~MatchAt(img, r, HEADER)
  ELSE Len(img)

\* Samples of the events of the given kinds in a log, at a baud rate.
RECURSIVE PartSamples(_, _, _)
PartSamples(log, baud, kinds) ==
  IF log = <<>> THEN 0
  ELSE (IF Head(log).ev \in kinds THEN EventSamples(Head(log), baud) ELSE 0)
       + PartSamples(Tail(log), baud, kinds)

AllKinds == {"silence", "sync", "data"}

\* The image of C1: one marker, the ASCII identifier, a payload ending in
\* 0x1A, and no further marker.
SingleAsciiImage ==
  /\ MatchAt(cas, 0, HEADER)
  /\ MatchAt(cas, 8, ASCII)
  /\ Len(cas) > 18
  /\ cas[Len(cas)] = 26
  /\ \A q \in 1..Len(cas) : ~MatchAt(cas, q, HEADER)

\* C1: for an image of exactly one marker, the ASCII identifier and a payload
\* ending in 0x1A, the finished scan has emitted the configured silence, the
\* initial sync and the one payload segment up to and including the 0x1A,
\* nothing more, and the cursor equals the image length.
C1_SingleAsciiBlockStops ==
  (pc = "done" /\ SingleAsciiImage) =>
    /\ Len(out) = 3
    /\ out[1] = [ev |-> "silence", n |-> silence_time]
    /\ out[2] = [ev |-> "sync", n |-> SYNC_INITIAL]
    /\ out[3].ev = "data"
    /\ SentBytes(out[3].bytes) = SubSeq(cas, 9, Len(cas))
    /\ pos = Len(cas)

\* The cursor is at a marker followed by the BIN or the BASIC identifier.
BinaryAtCursor ==
  /\ pc = "scan"
  /\ MatchAt(cas, pos, HEADER)
  /\ MatchAt(cas, pos + 8, BIN) \/ MatchAt(cas, pos + 8, BASIC)

\* C2: a step of the scan taken at a marker followed by the BIN or BASIC
\* identifier appends exactly: configured silence, initial sync, a payload
\* segment starting after the marker, a silence of 1 x sample rate, block
\* sync, a second payload segment starting 8 bytes after the first one's end;
\* the scan is back in the outer loop afterwards.
C2_BinaryPair ==
  [][BinaryAtCursor =>
       LET n == Len(out) IN
         /\ Len(out') = n + 6
         /\ SubSeq(out', 1, n) = out
         /\ out'[n + 1] = [ev |-> "silence", n |-> silence_time]
         /\ out'[n + 2] = [ev |-> "sync", n |-> SYNC_INITIAL]
         /\ out'[n + 3].ev = "data"
         /\ out'[n + 3].from = pos + 8
         /\ out'[n + 4] = [ev |-> "silence", n |-> 43200]
         /\ out'[n + 5] = [ev |-> "sync", n |-> SYNC_BLOCK]
         /\ out'[n + 6].ev = "data"
         /\ out'[n + 6].from = out'[n + 3].to + 8
         /\ pos' = out'[n + 6].to
         /\ pc' = "scan"]_vars

\* C2 witness: a finished run that matched a marker with the BIN or BASIC
\* identifier and transmitted a 0x1A in one of its segments.
C2_Witness ==
  /\ pc = "done"
  /\ \E i \in 1..Len(marks) :
       /\ marks[i].how = "match"
       /\ MatchAt(cas, marks[i].at + 8, BIN)
          \/ MatchAt(cas, marks[i].at + 8, BASIC)
  /\ \E j \in 1..Len(out) : out[j].ev = "data" /\ out[j].eof

\* C3: every one-byte skip moved the cursor by exactly one, and every marker
\* occurrence behind the cursor was taken as a marker (matched by the outer
\* scan or consumed as the separator before a continuation segment): none
\* was passed over by skipping.
C3_NoMarkerSkipped ==
  /\ \A i \in 1..Len(diag) :
       diag[i].msg = "skipping unhandled data" =>
         /\ diag[i].to = diag[i].at + 1
         /\ ~MatchAt(cas, diag[i].at, HEADER)
  /\ \A q \in 0..Len(cas) :
       (MatchAt(cas, q, HEADER) /\ q < pos) =>
         \E i \in 1..Len(marks) : marks[i].at = q

\* C3 witness: the overlap case; a byte that starts like the marker was
\* skipped and the marker starting one byte later was matched.
C3_Witness ==
  /\ pc = "done"
  /\ \E i \in 1..Len(diag), j \in 1..Len(marks) :
       /\ diag[i].msg = "skipping unhandled data"
       /\ cas[diag[i].at + 1] = 31
       /\ marks[j].at = diag[i].at + 1
       /\ marks[j].how = "match"

\* C4: a returned writeData call started at cursor p (0 <= p <= length) has
\* transmitted exactly the image bytes from p up to the first marker at or
\* after p (all the rest when there is none), returns that offset, and has
\* left the stream there.
C4_WindowEqualsLookahead ==
  wd.pc = "ret" =>
    LET q == NextMarker(cas, wd.from) IN
      /\ wd.position = q
      /\ SentBytes(wd.sent) = SubSeq(cas, wd.from + 1, q)
      /\ wd.input = q

\* C4 witness: a call that transmitted a byte starting like the marker and
\* stopped at a marker before the end of the image.
C4_Witness ==
  /\ wd.pc = "ret"
  /\ wd.from < wd.position
  /\ wd.position < Len(cas)
  /\ 31 \in Range(wd.sent)

RECURSIVE FramedBits(_, _)
FramedBits(b, i) ==
  IF i = 8 THEN <<>>
  ELSE (IF (b \div (2 ^ i)) % 2 = 1 THEN <<2400, 2400>> ELSE <<1200>>)
       \o FramedBits(b, i + 1)

Framed(b) == <<1200>> \o FramedBits(b, 0) \o <<2400, 2400, 2400, 2400>>

\* The inverse rule: the byte a tone sequence decodes to, -1 when it is not
\* start bit, 8 data bits, two stop bits.
RECURSIVE DecodeBits(_, _, _)
DecodeBits(t, i, acc) ==
  IF i = 8
  THEN IF t = <<2400, 2400, 2400, 2400>> THEN acc ELSE 0 - 1
  ELSE IF t = <<>> THEN 0 - 1
  ELSE IF Head(t) = 1200 THEN DecodeBits(Tail(t), i + 1, acc)
  ELSE IF Len(t) >= 2 /\ t[1] = 2400 /\ t[2] = 2400
  THEN DecodeBits(SubSeq(t, 3, Len(t)), i + 1, acc + 2 ^ i)
  ELSE 0 - 1

Decode(t) ==
  IF t # <<>> /\ Head(t) = 1200 THEN DecodeBits(Tail(t), 0, 0) ELSE 0 - 1

\* C6: the tones of writeByte(b) are one LONG pulse, per data bit (least
\* significant first) one LONG pulse for 0 or two SHORT pulses for 1, then
\* four SHORT pulses, and decode to the byte b (its low 8 bits).
C6_ByteFraming ==
  fr.op = "byte" =>
    /\ fr.tones = Framed(fr.arg % 256)
    /\ Decode(fr.tones) = fr.arg % 256

\* C6 witness: writeByte(0xEA), a byte with both bit values: 18 pulses.
C6_Witness ==
  /\ fr.op = "byte"
  /\ fr.arg = 234
  /\ Len(fr.tones) = 18

\* C7: writePulse puts trunc(43200 / (baud * (freq / 1200))) samples, that is
\* 36, 18, 18, 9, and the table index of sample n is floor(n * 360 / length),
\* within 0..359.
C7_PulseSamples ==
  fr.op = "pulse" =>
    LET length == 43200 \div (baudrate * (fr.arg \div 1200)) IN
      /\ Len(fr.indices) = length
      /\ fr.nput = length
      /\ length = CASE baudrate = 1200 /\ fr.arg = 1200 -> 36
                    [] baudrate = 1200 /\ fr.arg = 2400 -> 18
                    [] baudrate = 2400 /\ fr.arg = 1200 -> 18
                    [] baudrate = 2400 /\ fr.arg = 2400 -> 9
      /\ \A k \in 1..Len(fr.indices) :
           /\ fr.indices[k] = ((k - 1) * 360) \div length
           /\ fr.indices[k] \in 0..359

\* C7 witness: the shortest pulse, 2400 Hz at 2400 baud, 9 samples.
C7_Witness ==
  /\ fr.op = "pulse"
  /\ baudrate = 2400
  /\ fr.arg = 2400
  /\ Len(fr.indices) = 9

C9_TotalHalved ==
  pc = "done" =>
    /\ \A f \in {1200, 2400} : PulseLength(1200, f) = 2 * PulseLength(2400, f)
    /\ PartSamples(out, 1200, AllKinds) = 2 * PartSamples(out, 2400, AllKinds)

\* C9 amended: the run wrote the samples of its segments at its baud rate;
\* 2400 baud halves every pulse and the samples of the transmitted bytes,
\* and leaves the sync and silence samples as they are at 1200 baud.
C9_DataHalved ==
  pc = "done" =>
    /\ wb.written = PartSamples(out, baudrate, AllKinds)
    /\ \A f \in {1200, 2400} : PulseLength(1200, f) = 2 * PulseLength(2400, f)
    /\ PartSamples(out, 1200, {"data"}) = 2 * PartSamples(out, 2400, {"data"})
    /\ PartSamples(out, 1200, {"sync"}) = PartSamples(out, 2400, {"sync"})
    /\ PartSamples(out, 1200, {"silence"})
         = PartSamples(out, 2400, {"silence"})

\* C9 witness: a finished run at 2400 baud that transmitted bytes in two
\* blocks.
C9_Witness ==
  /\ pc = "done"
  /\ baudrate = 2400
  /\ Len(out) >= 6
  /\ PartSamples(out, 2400, {"data"}) > 0

\* C10: the initial sync is 288000 samples (6.67 s at 43200 Hz) and the
\* block sync 72000 samples (1.67 s), at both baud rates.
C10_SyncDurations ==
  /\ (fr.op = "sync" /\ fr.arg = SYNC_INITIAL) => fr.nput = 288000
  /\ (fr.op = "sync" /\ fr.arg = SYNC_BLOCK) => fr.nput = 72000

\* The cursor is at a marker followed by at least 10 bytes that are none of
\* the three identifiers.
UnknownAtCursor ==
  /\ pc = "scan"
  /\ MatchAt(cas, pos, HEADER)
  /\ pos + 18 <= Len(cas)
  /\ \A id \in {ASCII, BIN, BASIC} : ~MatchAt(cas, pos + 8, id)

\* C11: a step of the scan taken at a marker followed by at least 10 bytes
\* that match no known identifier appends exactly: a silence of 2 x 43200
\* samples whatever the configured silence is, the initial sync, and one
\* payload segment starting after the marker; the scan is back in the outer
\* loop at the cursor that segment returned.
C11_UnknownBranch ==
  [][UnknownAtCursor =>
       LET n == Len(out) IN
         /\ Len(out') = n + 3
         /\ SubSeq(out', 1, n) = out
         /\ out'[n + 1] = [ev |-> "silence", n |-> 2 * 43200]
         /\ out'[n + 2] = [ev |-> "sync", n |-> SYNC_INITIAL]
         /\ out'[n + 3].ev = "data"
         /\ out'[n + 3].from = pos + 8
         /\ out'[n + 3].to = NextMarker(cas, pos + 8)
         /\ pos' = out'[n + 3].to
         /\ pc' = "scan"]_vars

\* C11 witness: a finished run with a configured silence other than the long
\* one that took the unknown branch and transmitted the 10 bytes.
C11_Witness ==
  /\ pc = "done"
  /\ silence_time # 2 * 43200
  /\ \E i \in 1..Len(diag) :
       /\ diag[i].msg = "unknown file type: using long header"
       /\ \E j \in 1..Len(out) :
            /\ out[j].ev = "data"
            /\ out[j].from = diag[i].to
            /\ Len(out[j].bytes) >= 10

\* The cursor is at a marker with fewer than 10 bytes after it.
TruncatedAtCursor ==
  /\ pc = "scan"
  /\ MatchAt(cas, pos, HEADER)
  /\ Len(cas) - (pos + 8) < 10

\* C12: a step of the scan taken at a marker followed by fewer than 10 bytes
\* appends exactly: the configured silence, the initial sync, and one payload
\* segment that starts right after the marker and transmits the remaining
\* bytes (up to the next marker, when the remainder holds one).
C12_TruncatedBranch ==
  [][TruncatedAtCursor =>
       LET n == Len(out)
           q == NextMarker(cas, pos + 8)
       IN /\ Len(out') = n + 3
          /\ SubSeq(out', 1, n) = out
          /\ out'[n + 1] = [ev |-> "silence", n |-> silence_time]
          /\ out'[n + 2] = [ev |-> "sync", n |-> SYNC_INITIAL]
          /\ out'[n + 3].ev = "data"
          /\ out'[n + 3].from = pos + 8
          /\ SentBytes(out'[n + 3].bytes) = SubSeq(cas, pos + 9, q)
          /\ pos' = q
          /\ pc' = "scan"]_vars

\* C12 witness: a finished run with a configured silence other than the long
\* one that took the truncated branch and transmitted all the remaining
\* bytes, at least one, up to the end of the image.
C12_Witness ==
  /\ pc = "done"
  /\ silence_time # LONG_SILENCE
  /\ \E i \in 1..Len(diag) :
       /\ diag[i].msg = "unknown file type: using initial sync"
       /\ \E j \in 1..Len(out) :
            /\ out[j].ev = "data"
            /\ out[j].from = diag[i].to
            /\ out[j].to = Len(cas)
            /\ out[j].bytes # <<>>

\* C13: at every moment the bytes written to the file followed by the bytes
\* still buffered are the bytes given to putByte so far, in their order; after
\* the final flushWriteBuffer the file holds exactly the bytes put, none lost
\* and none duplicated.
C13_BytesPreserved ==
  /\ RunsConcat(sk.file, RunsTake(sk.buffer, sk.position)) = sk.put
  /\ sk.done => (sk.file = sk.put /\ sk.position = 0)

\* C13 witness: after the final flush, a file of more than one buffer's
\* worth of bytes, not all equal, of which the last flush wrote a partial
\* buffer.
C13_Witness ==
  /\ sk.op = "flush"
  /\ sk.done
  /\ RunsLen(sk.file) > WRITE_BUFFER_SIZE
  /\ RunsLen(sk.file) % WRITE_BUFFER_SIZE # 0
  /\ Len(sk.file) >= 2

\* C14: after the header is rewritten, RiffSize is the size of the output
\* file (header and PCM bytes) minus 8, and nDataBytes the number of PCM bytes
\* written after the header.
C14_HeaderSizes ==
  pc = "done" =>
    /\ waveheader.RiffSize = (SizeofWaveHeader + wb.written) - 8
    /\ waveheader.nDataBytes = wb.written

\* The samples the framing rule gives byte b at a baud rate.
RECURSIVE ToneSum(_, _)
ToneSum(tones, baud) ==
  IF tones = <<>> THEN 0
  ELSE 43200 \div (baud * (Head(tones) \div 1200)) + ToneSum(Tail(tones), baud)

\* The framing samples of every byte at both baud rates.
FramingSamples ==
  [b \in 0..255, baud \in {1200, 2400} |-> ToneSum(Framed(b), baud)]

\* Silence samples + sync pulses x the samples of one SHORT pulse + the
\* framing samples of every transmitted byte, over the events of a log.
RECURSIVE ClosedForm(_, _)
ClosedForm(log, baud) ==
  IF log = <<>> THEN 0
  ELSE LET e == Head(log)
           bytes == IF e.ev = "data" THEN SentBytes(e.bytes) ELSE <<>>
           framing == [i \in 1..Len(bytes) |-> FramingSamples[bytes[i], baud]]
           RECURSIVE Sum(_)
           Sum(q) == IF q = <<>> THEN 0 ELSE Head(q) + Sum(Tail(q))
       IN (CASE e.ev = "silence" -> e.n
             [] e.ev = "sync" ->
                  ((e.n * baud) \div 1200) * (43200 \div (baud * 2))
             [] e.ev = "data" -> Sum(framing))
          + ClosedForm(Tail(log), baud)

\* C15: the PCM bytes put so far (written and still buffered) are the sum
\* of the silence sample counts emitted, the sync pulses emitted times the
\* length of one SHORT pulse, and the framing samples of all transmitted
\* bytes; at the end of the run all of them, and nothing else, are written.
C15_ClosedForm ==
  pc \in {"scan", "ascii", "done"} =>
    /\ wb.written + wb.position = ClosedForm(out, baudrate)
    /\ pc = "done" => wb.written = ClosedForm(out, baudrate)

\* C15 witness: a finished run of several blocks that transmitted bytes and
\* ended with a partial buffer flushed.
C15_Witness ==
  /\ pc = "done"
  /\ Len(out) >= 6
  /\ PartSamples(out, baudrate, {"data"}) > 0
  /\ wb.written % WRITE_BUFFER_SIZE # 0

\* C16: every further segment of the ASCII branch is emitted only while
\* neither stop condition holds (the last segment transmitted no 0x1A and the
\* cursor is below the image length), is preceded by a silence of 43200
\* samples and the block sync, and the branch goes on exactly until one of
\* the two conditions holds.
C16_AsciiLoop ==
  [][pc = "ascii" =>
       LET n == Len(out) IN
         /\ ~eof /\ pos < Len(cas)
         /\ Len(out') = n + 3
         /\ out'[n + 1] = [ev |-> "silence", n |-> 43200]
         /\ out'[n + 2] = [ev |-> "sync", n |-> SYNC_BLOCK]
         /\ out'[n + 3].ev = "data"
         /\ pc' = IF out'[n + 3].eof \/ pos' >= Len(cas)
                  THEN "scan" ELSE "ascii"]_vars

\* C17: every 8-byte skip before a continuation segment was made at a marker
\* that lies within the image, and no segment was started at a cursor
\* beyond the image length.
C17_ContinuationAtMarker ==
  /\ \A i \in 1..Len(marks) :
       marks[i].how = "continue" => MatchAt(cas, marks[i].at, HEADER)
  /\ \A j \in 1..Len(out) : out[j].ev = "data" => out[j].from <= Len(cas)

\* C18: the buffer position is within 0..WRITE_BUFFER_SIZE in every state,
\* no putByte stores at an index >= WRITE_BUFFER_SIZE, the position is 0
\* after every flushWriteBuffer, and bytes leave the buffer (the position
\* drops, the file grows) only through a flush, which writes them to the file.
C18_BufferPosition ==
  /\ [](/\ sk.position \in 0..16384
        /\ sk.hi < 16384
        /\ sk.op = "flush" => sk.position = 0
        /\ wb.position = sk.position
        /\ wb.written = RunsLen(sk.file))
  /\ [][(sk.position' < sk.position \/ sk.file' # sk.file) =>
          /\ sk.op' = "flush"
          /\ sk.position' = 0
          /\ RunsLen(sk.file') = RunsLen(sk.put')]_vars

\* C18 witness: putByte stored at the last index of the buffer and flushed
\* it; the run has not reached its final flush.
C18_Witness ==
  /\ sk.op = "flush"
  /\ ~sk.done
  /\ sk.hi = WRITE_BUFFER_SIZE - 1
  /\ sk.position = 0
  /\ RunsLen(sk.file) >= WRITE_BUFFER_SIZE

\* C19: no step of the scan (one-byte skip, marker and payload segments,
\* continuation segment, end of the loop) decreases the cursor.
C19_CursorMonotonic == [][pos' >= pos]_vars

\* C19 witness: a finished run that skipped a byte, matched a marker and
\* transmitted a continuation segment, with the cursor moved on each time.
C19_Witness ==
  /\ pc = "done"
  /\ pos > 0
  /\ \E i \in 1..Len(diag) : diag[i].msg = "skipping unhandled data"
  /\ \E i, j \in 1..Len(marks) :
       /\ marks[i].how = "match"
       /\ marks[j].how = "continue"
       /\ marks[i].at < marks[j].at

\* C20: every run ends (the scan loop and the ASCII continuation loop are
\* left for good), and every iteration of either loop strictly increases
\* the cursor.
C20_Terminates ==
  /\ <>(pc = "done")
  /\ [][pc' # "done" => pos' > pos]_vars

\* C20 witness: a finished run over an image with misaligned bytes, an
\* unknown identifier and an ASCII block without any 0x1A.
C20_Witness ==
  /\ pc = "done"
  /\ \E i \in 1..Len(diag) : diag[i].msg = "skipping unhandled data"
  /\ \E i \in 1..Len(diag) :
       diag[i].msg = "unknown file type: using long header"
  /\ \E i \in 1..Len(marks) :
       marks[i].how = "match" /\ MatchAt(cas, marks[i].at + 8, ASCII)
  /\ \A j \in 1..Len(out) : out[j].ev = "data" => ~out[j].eof

\* No marker occurs at or after offset p.
NoMarkerFrom(p) == \A q \in 0..Len(cas) : q >= p => ~MatchAt(cas, q, HEADER)

\* C21 as claimed: when the scan has stopped the cursor is at or beyond the
\* image length and no marker remains at or after it.
C21_StopsAtLength ==
  pc = "done" => (pos >= Len(cas) /\ NoMarkerFrom(pos))

\* C21 amended: the scan stops exactly when fewer than 8 bytes remain at the
\* cursor, so no marker remains at or after it; the cursor is below the
\* image length (by at most 7) only when no marker was ever matched, and it
\* is never left while 8 or more bytes remain.
C21_StopsWithinMarkerLength ==
  /\ [](pc = "done" =>
          /\ pos + 8 > Len(cas)
          /\ NoMarkerFrom(pos)
          /\ pos < Len(cas) => (marks = <<>> /\ out = <<>>))
  /\ [][pc' = "done" => (pc = "scan" /\ pos' = pos /\ pos + 8 > Len(cas))]_vars

\* C21 witness: a scan that stopped below the image length after skipping
\* bytes, the image holding no marker.
C21_Witness ==
  /\ pc = "done"
  /\ pos < Len(cas)
  /\ diag # <<>>

\* C22: the output is a sequence of triples silence, sync, payload segment,
\* one per marker taken: the initial sync for a marker matched by the outer
\* scan, the block sync for the marker before a continuation segment, each
\* segment starting right after its marker; a continuation only follows a
\* segment of an ASCII or BIN/BASIC sequence; the ASCII loop is entered only
\* from the outer scan at a marker and the run ends in the outer scan.
C22_EmissionOrder ==
  /\ [](/\ Len(out) = 3 * Len(marks)
        /\ \A k \in 1..Len(marks) :
             /\ out[3 * k - 2].ev = "silence"
             /\ out[3 * k - 1].ev = "sync"
             /\ out[3 * k].ev = "data"
             /\ out[3 * k].from = marks[k].at + 8
             /\ marks[k].how = "match" =>
                  /\ out[3 * k - 1].n = SYNC_INITIAL
                  /\ MatchAt(cas, marks[k].at, HEADER)
             /\ marks[k].how = "continue" =>
                  /\ out[3 * k - 1].n = SYNC_BLOCK
                  /\ out[3 * k - 2].n = 43200
                  /\ k > 1
                  /\ marks[k].at = out[3 * k - 3].to
                  /\ \E m \in 1..(k - 1) :
                       /\ marks[m].how = "match"
                       /\ \A i \in (m + 1)..k : marks[i].how = "continue"
                       /\ \E id \in {ASCII, BIN, BASIC} :
                            MatchAt(cas, marks[m].at + 8, id))
  /\ [][/\ (pc' = "ascii" /\ pc = "scan") => MatchAt(cas, pos, HEADER)
        /\ pc' = "done" => pc = "scan"]_vars

\* C22 witness: a finished run with two markers matched by the outer scan
\* and a continuation segment between them.
C22_Witness ==
  /\ pc = "done"
  /\ \E i, j, k \in 1..Len(marks) :
       /\ i < j /\ j < k
       /\ marks[i].how = "match"
       /\ marks[j].how = "continue"
       /\ marks[k].how = "match"

\* The silences, syncs and segment boundaries of a log.
Shape(log) ==
  [i \in 1..Len(log) |->
     IF log[i].ev = "data"
     THEN [ev |-> "data", from |-> log[i].from, to |-> log[i].to]
     ELSE log[i]]

\* The image with the BIN identifier after a marker replaced by the BASIC
\* identifier and the other way round.
SwapIds(img) ==
  [i \in 1..Len(img) |->
     IF \E q \in 0..Len(img) :
          /\ MatchAt(img, q, HEADER)
          /\ MatchAt(img, q + 8, BIN) \/ MatchAt(img, q + 8, BASIC)
          /\ q + 8 < i /\ i <= q + 18
     THEN (IF img[i] = 208 THEN 211 ELSE 208)
     ELSE img[i]]

\* The class the 10 bytes after the marker at the cursor have.
KindAtCursor ==
  LET id == SubSeq(cas, pos + 9, pos + 18)
  IN IF \A i \in 1..10 : id[i] = 234 THEN "ASCII"
     ELSE IF (\A i \in 1..10 : id[i] = 208) \/ (\A i \in 1..10 : id[i] = 211)
     THEN "BINARY"
     ELSE "UNKNOWN"

\* C23: a step at a marker followed by at least 10 bytes takes the ASCII
\* policy exactly when all 10 are 0xEA, the two-segment policy exactly when
\* all 10 are 0xD0 or all 10 are 0xD3, and the unknown policy otherwise; and
\* the image with BIN and BASIC identifiers exchanged gives the same
\* silences, syncs and segment boundaries.
C23_Classification ==
  /\ [](pc = "done" =>
          /\ Shape(out) = ScanEvents(cas, 0, silence_time)
          /\ Shape(out) = ScanEvents(SwapIds(cas), 0, silence_time))
  /\ [][(pc = "scan" /\ MatchAt(cas, pos, HEADER) /\ pos + 18 <= Len(cas)) =>
          LET n == Len(out) IN
            /\ KindAtCursor = "ASCII" =>
                 /\ pc' = "ascii"
                 /\ Len(out') = n + 3
                 /\ out'[n + 1].n = silence_time
                 /\ diag' = diag
            /\ KindAtCursor = "BINARY" =>
                 /\ pc' = "scan"
                 /\ Len(out') = n + 6
                 /\ out'[n + 1].n = silence_time
                 /\ out'[n + 5].n = SYNC_BLOCK
                 /\ diag' = diag
            /\ KindAtCursor = "UNKNOWN" =>
                 /\ pc' = "scan"
                 /\ Len(out') = n + 3
                 /\ out'[n + 1].n = LONG_SILENCE
                 /\ Len(diag') = Len(diag) + 1]_vars

\* C23 witness: a finished run over an image with a BIN or BASIC identifier
\* and with ten bytes that miss the ASCII identifier in the last byte only,
\* both after a marker matched by the outer scan.
C23_Witness ==
  /\ pc = "done"
  /\ SwapIds(cas) # cas
  /\ \E i, j \in 1..Len(marks) :
       /\ marks[i].how = "match"
       /\ MatchAt(cas, marks[i].at + 8, BIN) \/ MatchAt(cas, marks[i].at + 8, BASIC)
       /\ marks[j].how = "match"
       /\ MatchAt(cas, marks[j].at + 8, NearAscii)

\* The messages of the unknown and the truncated identifier branch.
UnknownMessages ==
  {"unknown file type: using long header",
   "unknown file type: using initial sync"}

\* The number of entries of a log with a message of the given set.
RECURSIVE CountMsgs(_, _)
CountMsgs(log, msgs) ==
  IF log = <<>> THEN 0
  ELSE (IF Head(log).msg \in msgs THEN 1 ELSE 0) + CountMsgs(Tail(log), msgs)

\* C24: a one-byte advance on a mismatch reports exactly one skip
\* diagnostic and emits nothing; a marker handled by the unknown or the
\* truncated branch reports exactly one unknown-type diagnostic and emits its
\* silence, sync and segment; no other step reports anything; the run goes
\* on to its end whatever was reported.
C24_Diagnostics ==
  /\ [][LET skip == pc = "scan" /\ pos + 8 <= Len(cas)
                      /\ ~MatchAt(cas, pos, HEADER)
            unk == UnknownAtCursor \/ TruncatedAtCursor
            n == Len(diag)
        IN /\ skip =>
                /\ Len(diag') = n + 1
                /\ SubSeq(diag', 1, n) = diag
                /\ diag'[n + 1].msg = "skipping unhandled data"
                /\ pos' = pos + 1
                /\ out' = out /\ wb' = wb
                /\ pc' = "scan"
           /\ unk =>
                /\ Len(diag') = n + 1
                /\ SubSeq(diag', 1, n) = diag
                /\ diag'[n + 1].msg \in UnknownMessages
                /\ Len(out') = Len(out) + 3
                /\ pc' = "scan"
           /\ ~(skip \/ unk) => diag' = diag
           /\ (pos' = pos + 1 /\ out' = out) => skip]_vars
  /\ [](pc = "done" =>
          /\ CountMsgs(diag, {"skipping unhandled data"})
               = Cardinality({q \in 0..Len(cas) :
                                q < pos /\ q < NextMarker(cas, 0)})
          /\ wb.written = PartSamples(out, baudrate, AllKinds))

\* C24 witness: a finished run that reported two skips and an unknown-type
\* diagnostic and emitted audio.
C24_Witness ==
  /\ pc = "done"
  /\ CountMsgs(diag, {"skipping unhandled data"}) >= 2
  /\ CountMsgs(diag, UnknownMessages) >= 1
  /\ wb.written > 0

\* C25: writeByte puts 11 x (43200 / baud) samples for every byte value,
\* 396 at 1200 baud and 198 at 2400 baud: a 0 bit (one LONG pulse) and a
\* 1 bit (two SHORT pulses) are equally long.
C25_SamplesPerByte ==
  /\ fr.op = "byte" =>
       /\ fr.nput = 11 * (43200 \div baudrate)
       /\ fr.nput = (IF baudrate = 1200 THEN 396 ELSE 198)
       /\ fr.nput = TonesSamples(fr.tones, baudrate)
  /\ PulseLength(baudrate, LONG_PULSE) = 2 * PulseLength(baudrate, SHORT_PULSE)

\* C25 witness: writeByte(0xFF) at 2400 baud, all data bits 1: 21 pulses,
\* 198 samples.
C25_Witness ==
  /\ fr.op = "byte"
  /\ fr.arg = 255
  /\ baudrate = 2400
  /\ Len(fr.tones) = 21
  /\ fr.nput = 198

\* All bytes transmitted by the segments of a log, in order.
RECURSIVE AllSent(_)
AllSent(log) ==
  IF log = <<>> THEN <<>>
  ELSE (IF Head(log).ev = "data" THEN SentBytes(Head(log).bytes) ELSE <<>>)
       \o AllSent(Tail(log))

\* Offset i (1-based) lies within an occurrence of the marker.
InMarker(img, i) ==
  \E q \in 0..Len(img) : MatchAt(img, q, HEADER) /\ q < i /\ i <= q + 8

\* The bytes of the image from index i on that lie after the first marker
\* and within no marker occurrence.
RECURSIVE Payload(_, _)
Payload(img, i) ==
  IF i > Len(img) THEN <<>>
  ELSE (IF i > NextMarker(img, 0) /\ ~InMarker(img, i) THEN <<img[i]>>
        ELSE <<>>)
       \o Payload(img, i + 1)

\* C26: the bytes transmitted over the whole run are, in image order, the
\* image bytes after the first marker with every marker occurrence removed;
\* the first segment starts right after the first marker (so with the
\* identifier bytes), the segments transmit disjoint, ascending ranges of the
\* image, and nothing before the first marker is transmitted.
C26_TransmittedBytes ==
  /\ pc = "done" => AllSent(out) = Payload(cas, 1)
  /\ \A j \in 1..Len(out) :
       out[j].ev = "data" =>
         /\ out[j].from >= NextMarker(cas, 0) + 8
         /\ j = 3 => out[j].from = NextMarker(cas, 0) + 8
         /\ out[j].from <= Len(cas) =>
              SentBytes(out[j].bytes) = SubSeq(cas, out[j].from + 1, out[j].to)
         /\ out[j].from > Len(cas) => out[j].bytes = <<>>
         /\ j > 3 => out[j].from >= out[j - 3].to

\* C26 witness: a finished run over an image with bytes before the first
\* marker that transmitted an identifier and bytes of a later segment.
C26_Witness ==
  /\ pc = "done"
  /\ NextMarker(cas, 0) > 0
  /\ Len(out) >= 6
  /\ Len(out[3].bytes) >= 10
  /\ out[6].bytes # <<>>

\* C27: after every payload segment the cursor is at the image length or at
\* an offset where the marker matches; a one-byte skip happens only before
\* any marker has been matched.
C27_SegmentEndsAtMarker ==
  /\ \A j \in 1..Len(out) :
       out[j].ev = "data" =>
         (out[j].to = Len(cas) \/ MatchAt(cas, out[j].to, HEADER))
  /\ \A i \in 1..Len(diag) :
       diag[i].msg = "skipping unhandled data" =>
         \A k \in 1..Len(marks) : marks[k].at > diag[i].at

\* The ends of the complete 8-byte chunks, counted from offset from, that
\* contain 0x1A.
EofChunkEnds(from) ==
  {e \in {from + 8 * k : k \in 1..(Len(cas) \div 8 + 1)} :
     e <= Len(cas) /\ 26 \in Range(SubSeq(cas, e - 7, e))}

SetMin(S) == CHOOSE x \in S : \A y \in S : x <= y

\* The line casdir prints for a binary file whose addresses are at offset at.
BinaryLine(at) ==
  LET start == cas[at + 1] + 256 * cas[at + 2]
      stop == cas[at + 3] + 256 * cas[at + 4]
      exec == cas[at + 5] + 256 * cas[at + 6]
  IN [kind |-> "binary", name |-> dir.filename, start |-> start,
      stop |-> stop, exec |-> IF exec = 0 THEN start ELSE exec]

\* What a marker read in NEXT_NONE with a known identifier does to next.
C28_FileStep ==
  (dir.next = NEXT_NONE /\ Len(cas) >= dir.off + 18) =>
     LET id == SubSeq(cas, dir.off + 9, dir.off + 18)
     IN /\ id = ASCII => dir'.next = NEXT_ASCII
        /\ id = BIN => dir'.next = NEXT_BINARY
        /\ id = BASIC => dir'.next = NEXT_DATA

\* The data-block marker of an ASCII file: nothing is printed, the chunks
\* up to and including the first one with 0x1A are consumed.
C28_AsciiStep ==
  dir.next = NEXT_ASCII =>
     /\ dir'.listing = dir.listing
     /\ dir'.next = NEXT_NONE
     /\ EofChunkEnds(dir.off + 8) # {} =>
           dir'.off = SetMin(EofChunkEnds(dir.off + 8))

\* The data-block marker of a BASIC file: nothing more is read.
C28_DataStep ==
  dir.next = NEXT_DATA =>
     /\ dir'.listing = dir.listing
     /\ dir'.next = NEXT_NONE
     /\ dir'.off = dir.off + 8

\* The data-block marker of a binary file, with its 8 address bytes.
C28_BinaryStep ==
  /\ dir'.off = dir.off + 16
  /\ Len(cas) >= dir.off + 16
  /\ dir'.listing = Append(dir.listing, BinaryLine(dir.off + 8))
  /\ dir'.next = NEXT_NONE

\* At the start of an iteration position is the stream offset.
C28_PositionIsOffset ==
  (dir.pc = "head" /\ Len(DirChunk) = 8) => dir.position = dir.off

\* C28 as stated: after a marker with an ASCII, BIN or BASIC identifier is
\* read in NEXT_NONE, the next marker is consumed as the file's data block
\* without a new entry (ASCII: chunks skipped up to and including the first
\* one with 0x1A; BIN: the 8 address bytes are read and the binary line is
\* printed; BASIC: nothing is read) and next is NEXT_NONE again; position
\* is the number of bytes consumed at the start of every iteration.
C28_DataBlockConsumed ==
  /\ []C28_PositionIsOffset
  /\ [][(dir.pc = "head" /\ DirChunk = HEADER) =>
          /\ C28_FileStep
          /\ C28_AsciiStep
          /\ C28_DataStep
          /\ dir.next = NEXT_BINARY => C28_BinaryStep]_vars

\* C28 amended: the binary line is printed and next returns to NEXT_NONE
\* when 8 bytes follow the data-block marker; with fewer, nothing is
\* printed, next stays NEXT_BINARY and the file is consumed to its end. An
\* ASCII data block with no 0x1A chunk is skipped to the end of the file.
\* A chunk that is not a marker changes neither next nor the listing.
C28_DataBlockConsumedIfPresent ==
  /\ []C28_PositionIsOffset
  /\ [][(dir.pc = "head" /\ DirChunk = HEADER) =>
          /\ C28_FileStep
          /\ C28_AsciiStep
          /\ (dir.next = NEXT_ASCII /\ EofChunkEnds(dir.off + 8) = {}) =>
                dir'.off = Len(cas)
          /\ C28_DataStep
          /\ dir.next = NEXT_BINARY =>
                IF Len(cas) >= dir.off + 16
                THEN C28_BinaryStep
                ELSE /\ dir'.listing = dir.listing
                     /\ dir'.next = NEXT_BINARY
                     /\ dir'.off = Len(cas)]_vars
  /\ [][(dir.pc = "head" /\ Len(DirChunk) = 8 /\ DirChunk # HEADER) =>
          (dir'.next = dir.next /\ dir'.listing = dir.listing)]_vars

\* A binary file listed with exec defaulted to start, the scan over with
\* next back at NEXT_NONE and position at the file's length.
C28_Witness ==
  /\ dir.pc = "done"
  /\ dir.next = NEXT_NONE
  /\ dir.position = Len(cas)
  /\ Len(dir.listing) = 1
  /\ dir.listing[1].kind = "binary"
  /\ dir.listing[1].name = Name6
  /\ dir.listing[1].exec = dir.listing[1].start

\* An ASCII data block of two chunks, the second with the 0x1A, consumed.
C28_WitnessAscii ==
  /\ dir.pc = "done"
  /\ dir.next = NEXT_NONE
  /\ cas = HEADER \o ASCII \o Name6 \o HEADER
             \o <<0, 128, 255, 143, 0, 0, 65, 65>>
             \o <<65, 65, 65, 26, 65, 65, 65, 65>>
  /\ dir.position = Len(cas)
  /\ Len(dir.listing) = 1

====
